---- MODULE Spec2Model ----
(***************************************************************************)
(* A model of the request pipeline of the food-sharing server: the user    *)
(* middleware guards (src/server/listing/collection.ts, lines 102-316),    *)
(* the follow router (src/server/follow/router.ts) and the collaborators   *)
(* the router calls (follow middleware, FollowCollection, the session      *)
(* store, the user directory), which are modelled from the specification.  *)
(***************************************************************************)
EXTENDS Integers, Sequences, FiniteSets, TLC

\* ------------------------------------------------------------------ values

\* JavaScript's undefined, as a session user id or a path parameter.
Undefined == "undefined"

\* The empty string that `req.session.userId ?? ''` falls back to.
EmptyId == ""

\* JavaScript truthiness of a string-or-undefined value.
Truthy(v) == v # Undefined /\ v # EmptyId

\* The 13 living communities.
validCommunities ==
  {"Baker", "Burton Connor", "East Campus", "MacGregor", "Maseeh", "McCormick",
   "New House", "New Vassar", "Next House", "Random", "Simmons",
   "Off-campus Cambridge", "Off-campus Boston"}

\* ------------------------------------------------------------------ bounds

\* Requests issued over one behaviour.
MaxRequests == 3

\* Request slots: the requests that may be in flight at once. A request that
\* has ended leaves its slot to the next one.
Requests == {1, 2}

\* Accounts of the user directory, and browser sessions.
UserIds == {"u1", "u2"}
Sessions == {"s1"}

\* Listings created over one behaviour.
MaxListings == 2

\* Values of the :communityName? path parameter: a valid name, an invalid one,
\* and the absent parameter.
PathParams == {"Maseeh", "Narnia", Undefined}


\* ------------------------------------------------------------------ state

VARIABLES
  users,     \* the user directory: ids of the accounts that exist
  session,   \* the session store: session id -> user id or Undefined
  follows,   \* the Follow store: records in insertion order
  req,       \* request slot -> the progress of the request in it
  issued,    \* the number of requests issued so far
  following, \* history: the <<user, community>> pairs followed and not since unfollowed
  cleared,   \* history: the sessions whose user id session liveness cleared, until
             \* the next sign-in
  listings,  \* the Listing store: documents in insertion order
  created,   \* the number of listings created so far
  call       \* the last ListingCollection call: its arguments, the store before
             \* it, and how it ended

listingVars == <<listings, created, call>>

vars == <<users, session, follows, req, issued, following, cleared, listings, created, call>>

\* ------------------------------------------------------------------ guards

\* A guard's outcome: how often it invoked next(), the responses it wrote, and
\* req.session.userId as it leaves it.
CallNext(uid) == [nexts |-> 1, res |-> <<>>, userId |-> uid]

Respond(uid, status, msg) ==
  [nexts |-> 0, res |-> <<[status |-> status, body |-> <<"error", msg>>]>>, userId |-> uid]

\* UserCollection.findOneByUserId: the account, or Undefined for null.
findOneByUserId(dir, uid) == IF uid \in dir THEN uid ELSE Undefined

\* Outcome of a guard that writes its response and, lacking the return, goes on
\* to invoke next().
RespondAndNext(uid, status, msg) == [Respond(uid, status, msg) EXCEPT !.nexts = 1]

\* isCurrentSessionUserExists without `req.session.userId = undefined`.
isCurrentSessionUserExistsKeepsId(uid, dir) ==
  IF Truthy(uid) /\ findOneByUserId(dir, uid) = Undefined
  THEN Respond(uid, 500, "User session was not recognized.")
  ELSE CallNext(uid)

isCurrentSessionUserExists(uid, dir) ==
  IF Truthy(uid)
  THEN LET user == findOneByUserId(dir, uid) IN
       IF user = Undefined
       THEN Respond(Undefined, 500, "User session was not recognized.")
       ELSE CallNext(uid)
  ELSE CallNext(uid)

\* isUserLoggedIn without the `return` after its response.
isUserLoggedInNoReturn(uid) ==
  IF ~Truthy(uid)
  THEN RespondAndNext(uid, 403, "You must be logged in to complete this action.")
  ELSE CallNext(uid)

isUserLoggedIn(uid) ==
  IF ~Truthy(uid)
  THEN Respond(uid, 403, "You must be logged in to complete this action.")
  ELSE CallNext(uid)

\* isUserLoggedOut that compares with undefined instead of testing truthiness.
isUserLoggedOutIfUndefined(uid) ==
  IF uid # Undefined
  THEN Respond(uid, 403, "You are already signed in.")
  ELSE CallNext(uid)

\* isUserLoggedOut that signs the user out as it refuses the request.
isUserLoggedOutClearsId(uid) ==
  IF Truthy(uid)
  THEN Respond(Undefined, 403, "You are already signed in.")
  ELSE CallNext(uid)

isUserLoggedOut(uid) ==
  IF Truthy(uid)
  THEN Respond(uid, 403, "You are already signed in.")
  ELSE CallNext(uid)

\* ------------------------------------------------------- request bodies

\* A key that the request body (or query) does not hold, the value undefined,
\* and a string value.
Absent == [absent |-> TRUE]
Undef == [undef |-> TRUE]
Str(s) == [str |-> s]

\* `key in req.body`, and `req.body.key`.
Has(body, key) == body[key] # Absent
Get(body, key) == IF body[key] = Absent THEN Undef ELSE body[key]

\* The characters of the strings that requests carry.
CharsOf(s) ==
  CASE s = "" -> <<>>
    [] s = "undefined" -> <<"u", "n", "d", "e", "f", "i", "n", "e", "d">>
    [] s = "alice" -> <<"a", "l", "i", "c", "e">>
    [] s = "bob_2" -> <<"b", "o", "b", "_", "2">>
    [] s = "carol" -> <<"c", "a", "r", "o", "l">>
    [] s = "a b" -> <<"a", " ", "b">>
    [] s = "a-b" -> <<"a", "-", "b">>
    [] s = "pw1" -> <<"p", "w", "1">>
    [] s = "pw2" -> <<"p", "w", "2">>
    [] s = "617-555" -> <<"6", "1", "7", "-", "5", "5", "5">>
    [] s = "nuts" -> <<"n", "u", "t", "s">>
    [] s = "Maseeh" -> <<"M", "a", "s", "e", "e", "h">>
    [] s = "Narnia" -> <<"N", "a", "r", "n", "i", "a">>

\* String(v), as RegExp.prototype.test coerces its argument.
ToStr(v) == IF v = Undef THEN "undefined" ELSE v.str

\* JavaScript truthiness of a body value.
TruthyValue(v) == v # Undef /\ CharsOf(v.str) # <<>>

\* `v?.length` is a number (not undefined), and that number.
HasLength(v) == v # Undef
LengthOf(v) == Len(CharsOf(v.str))

WordChars ==
  {"a", "b", "c", "d", "e", "f", "g", "h", "i", "j", "k", "l", "m", "n", "o", "p", "q",
   "r", "s", "t", "u", "v", "w", "x", "y", "z",
   "A", "B", "C", "D", "E", "F", "G", "H", "I", "J", "K", "L", "M", "N", "O", "P", "Q",
   "R", "S", "T", "U", "V", "W", "X", "Y", "Z",
   "0", "1", "2", "3", "4", "5", "6", "7", "8", "9", "_"}

SpaceChars == {" ", "\t", "\n", "\r", "\f"}

\* /^\w+$/i.test(v)
usernameRegex(v) ==
  LET cs == CharsOf(ToStr(v)) IN Len(cs) >= 1 /\ \A i \in 1..Len(cs) : cs[i] \in WordChars

\* /^\S+$/.test(v)
passwordRegex(v) ==
  LET cs == CharsOf(ToStr(v)) IN Len(cs) >= 1 /\ \A i \in 1..Len(cs) : cs[i] \notin SpaceChars

\* The accounts' credentials.
usernameOf(u) == IF u = "u1" THEN "alice" ELSE "bob_2"
passwordOf(u) == IF u = "u1" THEN "pw1" ELSE "pw2"

\* UserCollection.findOneByUsername: the account's id, or Undefined for null.
findOneByUsername(dir, name) ==
  IF name # Undef /\ \E u \in dir : usernameOf(u) = name.str
  THEN CHOOSE u \in dir : usernameOf(u) = name.str
  ELSE Undefined

\* UserCollection.findOneByUsernameAndPassword.
findOneByUsernameAndPassword(dir, name, password) ==
  IF \E u \in dir : usernameOf(u) = name.str /\ passwordOf(u) = password.str
  THEN CHOOSE u \in dir : usernameOf(u) = name.str /\ passwordOf(u) = password.str
  ELSE Undefined

isValidUsername(uid, body) ==
  IF ~usernameRegex(Get(body, "username"))
  THEN Respond(uid, 400, "Username must be a nonempty alphanumeric string.")
  ELSE CallNext(uid)

isValidPassword(uid, body) ==
  IF ~passwordRegex(Get(body, "password"))
  THEN Respond(uid, 400, "Password must be a nonempty string.")
  ELSE CallNext(uid)

isValidHomeCommunity(uid, body) ==
  IF Has(body, "homeCommunity")
     /\ ~(Get(body, "homeCommunity") # Undef /\ Get(body, "homeCommunity").str \in validCommunities)
  THEN Respond(uid, 400, "Home Community must be a valid living community at or near MIT.")
  ELSE CallNext(uid)

isValidContactInfo(uid, body) ==
  IF Has(body, "contactInfo")
     /\ ~(LET v == Get(body, "contactInfo") IN
            HasLength(v) /\ LengthOf(v) # 0 /\ LengthOf(v) >= 1)
  THEN Respond(uid, 400, "You must provide contact info.")
  ELSE CallNext(uid)

isValidAllergies(uid, body) ==
  IF Has(body, "allergies") /\ Get(body, "allergies") = Undef
  THEN Respond(uid, 400, "Allergies must not be undefined. Allergies should be an empty string if the user does not have allergies.")
  ELSE CallNext(uid)

isValidDietaryRestrictions(uid, body) ==
  IF Has(body, "otherDietaryRestrictions") /\ Get(body, "otherDietaryRestrictions") = Undef
  THEN Respond(uid, 400, "Dietary restrictions must not be undefined. Dietary restrictions should be an empty string if the user does not have dietary restrictions.")
  ELSE CallNext(uid)

isAccountExists(uid, body, dir) ==
  LET username == Get(body, "username")
      password == Get(body, "password")
  IN IF ~TruthyValue(username) \/ ~TruthyValue(password)
     THEN Respond(uid, 400,
            IF TruthyValue(username) THEN "Missing password credentials for sign in."
            ELSE "Missing username credentials for sign in.")
     ELSE LET user == findOneByUsernameAndPassword(dir, username, password) IN
          IF user # Undefined
          THEN CallNext(uid)
          ELSE Respond(uid, 401, "Invalid user login credentials provided.")

isUsernameNotAlreadyInUse(uid, body, dir) ==
  IF Get(body, "username") # Undef
  THEN LET user == findOneByUsername(dir, Get(body, "username")) IN
       IF user # Undefined /\ user # uid
       THEN Respond(uid, 409, "An account with this username already exists.")
       ELSE CallNext(uid)
  ELSE CallNext(uid)

\* isAuthorExists without the `return` after its 404 response.
isAuthorExistsNoReturn(uid, query, dir) ==
  IF ~TruthyValue(Get(query, "author"))
  THEN Respond(uid, 400, "Provided author username must be nonempty.")
  ELSE IF findOneByUsername(dir, Get(query, "author")) = Undefined
       THEN RespondAndNext(uid, 404,
              "A user with username " \o ToStr(Get(query, "author")) \o " does not exist.")
       ELSE CallNext(uid)

isAuthorExists(uid, query, dir) ==
  IF ~TruthyValue(Get(query, "author"))
  THEN Respond(uid, 400, "Provided author username must be nonempty.")
  ELSE LET user == findOneByUsername(dir, Get(query, "author")) IN
       IF user = Undefined
       THEN Respond(uid, 404,
              "A user with username " \o ToStr(Get(query, "author")) \o " does not exist.")
       ELSE CallNext(uid)

\* ------------------------------------------------- follow middleware, store

\* A Follow record; the store keeps them in insertion order.
Follow(uid, communityName) == [userId |-> uid, communityName |-> communityName]

\* FollowCollection.findAllFollowsByUserId: the user's follows, in store order.
findAllFollowsByUserId(store, uid) == SelectSeq(store, LAMBDA f : f.userId = uid)

\* FollowCollection.addOne: creates the record; it does not look for an
\* existing one.
addOne(store, uid, communityName) == Append(store, Follow(uid, communityName))

\* The position of the first record of the pair, 0 when there is none.
firstMatch(store, uid, communityName) ==
  LET hits == {i \in 1..Len(store) : store[i] = Follow(uid, communityName)} IN
  IF hits = {} THEN 0 ELSE CHOOSE i \in hits : \A j \in hits : i <= j

\* FollowCollection.deleteOne: removes the first record of the pair, if any.
deleteOne(store, uid, communityName) ==
  LET k == firstMatch(store, uid, communityName) IN
  IF k = 0 THEN store
  ELSE SubSeq(store, 1, k - 1) \o SubSeq(store, k + 1, Len(store))

isRepeatFollow(uid, communityName, store) ==
  IF firstMatch(store, uid, communityName) # 0
  THEN Respond(uid, 409, "You already follow this community.")
  ELSE CallNext(uid)

isValidCommunityName(uid, communityName) ==
  IF communityName \notin validCommunities
  THEN Respond(uid, 400, "Community name must be a valid living community.")
  ELSE CallNext(uid)

\* constructFollowResponse: the fields of a follow that the response carries.
constructFollowResponse(f) == [user |-> f.userId, communityName |-> f.communityName]

\* ------------------------------------------------------- listing store

\* null, and the void result of a call.
Null == [null |-> TRUE]
Void == [void |-> TRUE]

\* A number given as an update's quantity.
Num(n) == [num |-> n]

\* How a call ended: it returned a value, or its promise was rejected.
Returned(v) == [outcome |-> "returned", value |-> v]
Threw(e) == [outcome |-> "threw", value |-> e]

\* The state before any call.
NoCall == [op |-> "none", args |-> <<>>, before |-> <<>>, outcome |-> "returned", value |-> Void]

\* The position of the document with the id in the store, 0 when there is none.
Position(store, id) ==
  LET hits == {i \in 1..Len(store) : store[i].id = id} IN
  IF hits = {} THEN 0 ELSE CHOOSE i \in hits : TRUE

\* ListingModel.findOne({_id}): the document, or Null.
ListingModel_findOne(store, id) ==
  IF Position(store, id) = 0 THEN Null ELSE store[Position(store, id)]

\* populate('userId'): the owner's id gives way to the owner's account, or to
\* Null when the account is gone.
populate(doc, dir) ==
  [doc EXCEPT !.userId = IF findOneByUserId(dir, doc.userId) = Undefined
                         THEN Null ELSE [user |-> doc.userId]]

\* The order of the expiration strings that the store's sort compares.
ExpirationOrder == <<"2022-12-01", "2022-12-09">>
NotAfter(e, f) ==
  \E i, j \in 1..Len(ExpirationOrder) :
    i <= j /\ ExpirationOrder[i] = e /\ ExpirationOrder[j] = f

Ascending(docs) == \A i, j \in 1..Len(docs) : i < j => NotAfter(docs[i].expiration, docs[j].expiration)

\* sort({expiration: 1}): the arrangements of the documents in ascending
\* order of expiration; the store does not fix the order of equal keys.
SortByExpiration(docs) ==
  {[i \in 1..Len(docs) |-> docs[perm[i]]] :
     perm \in {f \in [1..Len(docs) -> 1..Len(docs)] :
                 /\ \A i, j \in 1..Len(docs) : i # j => f[i] # f[j]
                 /\ Ascending([i \in 1..Len(docs) |-> docs[f[i]]])}}

\* ListingCollection.addOne: the new document is saved, and returned with its
\* owner populated.
Listing_addOne(store, dir, id, now, userId, name, quantity, expiration, price, email) ==
  LET listing == [id |-> id, userId |-> userId, dateCreated |-> now, quantity |-> quantity,
                  name |-> name, expiration |-> expiration, price |-> price, email |-> email]
  IN [store |-> Append(store, listing), result |-> Returned(populate(listing, dir))]

\* ListingCollection.findOne.
Listing_findOne(store, dir, listingId) ==
  LET listing == ListingModel_findOne(store, listingId) IN
  [store |-> store,
   result |-> IF listing = Null THEN Returned(Null) ELSE Returned(populate(listing, dir))]

\* The fields the documents of findAll keep: `{sort: [...]}` is find's second
\* argument, the projection, so that the fields of a listing other than _id
\* are left out (userId comes back where the driver adds populated paths to
\* the projection), and no sort is asked for.
FindAllProjections == {{"id"}, {"id", "userId"}}

Project(doc, fields) == [f \in fields |-> doc[f]]

\* ListingCollection.findAll: the documents in store order, projected.
Listing_findAll(store, dir, fields) ==
  [store |-> store,
   result |-> Returned([i \in 1..Len(store) |-> Project(populate(store[i], dir), fields)])]

\* ListingCollection.findAllByUser: `user._id` of a user that is not found is
\* a TypeError.
Listing_findAllByUser(store, dir, userId, sorted) ==
  LET user == findOneByUserId(dir, userId) IN
  [store |-> store,
   result |-> IF user = Undefined THEN Threw("TypeError")
              ELSE Returned([i \in 1..Len(sorted) |-> populate(sorted[i], dir)])]

\* The user's documents, in store order: find({userId: user._id}).
OwnedBy(store, userId) == SelectSeq(store, LAMBDA l : l.userId = userId)

\* `if (listingDetails.quantity)`: a number other than 0.
TruthyQuantity(q) == q # Undef /\ q.num # 0

\* The store with the document at position k replaced.
Replace(store, k, doc) == [store EXCEPT ![k] = doc]

\* The update saved and returned when the listing is found.
Saved(store, dir, listingId, updated) ==
  [store |-> Replace(store, Position(store, listingId), updated),
   result |-> Returned(populate(updated, dir))]

\* updateOne that assigns both fields, with `?? 0` and `?? ''` for the details
\* that are not given.
Listing_updateOneDefaults(store, dir, listingId, listingDetails) ==
  LET listing == ListingModel_findOne(store, listingId) IN
  IF listing = Null THEN [store |-> store, result |-> Threw("TypeError")]
  ELSE Saved(store, dir, listingId,
             [listing EXCEPT
                !.quantity = IF listingDetails.quantity # Undef
                             THEN listingDetails.quantity.num ELSE 0,
                !.price = IF listingDetails.price # Undef THEN listingDetails.price.str ELSE ""])

\* updateOne that tests the quantity against undefined, as it does the price.
Listing_updateOneDefinedQuantity(store, dir, listingId, listingDetails) ==
  LET listing == ListingModel_findOne(store, listingId) IN
  IF listing = Null THEN [store |-> store, result |-> Threw("TypeError")]
  ELSE Saved(store, dir, listingId,
             [listing EXCEPT
                !.quantity = IF listingDetails.quantity # Undef
                             THEN listingDetails.quantity.num ELSE @,
                !.price = IF listingDetails.price # Undef THEN listingDetails.price.str ELSE @])

\* updateOne that assigns the price to the expiration.
Listing_updateOneWrongField(store, dir, listingId, listingDetails) ==
  LET listing == ListingModel_findOne(store, listingId) IN
  IF listing = Null THEN [store |-> store, result |-> Threw("TypeError")]
  ELSE Saved(store, dir, listingId,
             [listing EXCEPT
                !.quantity = IF TruthyQuantity(listingDetails.quantity)
                             THEN listingDetails.quantity.num ELSE @,
                !.expiration = IF listingDetails.price # Undef
                               THEN listingDetails.price.str ELSE @])

\* ListingCollection.updateOne: when no listing has the id, `listing` is null
\* and the first of the assignments or listing.save() is a TypeError.
Listing_updateOne(store, dir, listingId, listingDetails) ==
  LET listing == ListingModel_findOne(store, listingId) IN
  IF listing = Null THEN [store |-> store, result |-> Threw("TypeError")]
  ELSE Saved(store, dir, listingId,
             [listing EXCEPT
                !.quantity = IF TruthyQuantity(listingDetails.quantity)
                             THEN listingDetails.quantity.num ELSE @,
                !.price = IF listingDetails.price # Undef THEN listingDetails.price.str ELSE @])

\* ListingCollection.deleteOne: ListingModel.deleteOne resolves to the result
\* of the deletion, an object, whether or not a document was deleted, so that
\* `listing !== null` is true.
Listing_deleteOne(store, listingId) ==
  [store |-> SelectSeq(store, LAMBDA l : l.id # listingId), result |-> Returned(TRUE)]

\* ListingCollection.deleteMany.
Listing_deleteMany(store, userId) ==
  [store |-> SelectSeq(store, LAMBDA l : l.userId # userId), result |-> Returned(Void)]

\* ------------------------------------------------------------------ routes

Routes == {"GET /session", "GET /listings", "PUT /:communityName", "DELETE /:communityName"}

GetSessionGuards == <<"isUserLoggedIn">>

GetListingsGuards == <<"isUserLoggedIn">>

\* The PUT route without its repeat-follow guard, without its community-name
\* guard, and with the two in the other order.
PutGuardsNoRepeatCheck == <<"isUserLoggedIn", "isValidCommunityName">>
PutGuardsNoNameCheck == <<"isUserLoggedIn", "isRepeatFollow">>
PutGuardsReordered == <<"isUserLoggedIn", "isValidCommunityName", "isRepeatFollow">>

PutGuards == <<"isUserLoggedIn", "isRepeatFollow", "isValidCommunityName">>

DeleteGuards == <<"isUserLoggedIn", "isValidCommunityName">>

RouteGuards(route) ==
  CASE route = "GET /session" -> GetSessionGuards
    [] route = "GET /listings" -> GetListingsGuards
    [] route = "PUT /:communityName" -> PutGuards
    [] route = "DELETE /:communityName" -> DeleteGuards

\* The guards a request passes: the application runs session liveness on every
\* request, ahead of the route's own guards.
Chain(route) == <<"isCurrentSessionUserExists">> \o RouteGuards(route)

\* ---------------------------------------------------------------- requests

\* A request slot. Beside the request itself (route, sid, communityName), its
\* req.session.userId and its position (phase), a slot records what the request
\* did: the guards that ran with their outcomes (ran), the responses written
\* (responses), the collection operations called (ops); and, for the
\* properties, whether it arrived on a session that session liveness had
\* cleared (afterClear), and whether it repeats a follow undisturbed (repeat):
\* its user's account exists and already follows the community it names, and
\* nothing else was in flight when it arrived or has run since.
IdleRequest ==
  [phase |-> "idle", route |-> "GET /session", sid |-> "s1", communityName |-> Undefined,
   userId |-> Undefined, ran |-> <<>>, responses |-> <<>>, ops |-> <<>>,
   afterClear |-> FALSE, repeat |-> FALSE]

Init ==
  /\ users = UserIds
  /\ session = [s \in Sessions |-> Undefined]
  /\ follows = <<>>
  /\ req = [r \in Requests |-> IdleRequest]
  /\ issued = 0
  /\ following = {}
  /\ cleared = {}
  /\ listings = <<>>
  /\ created = 0
  /\ call = NoCall

InFlight(rq) == rq.phase \in {"chain", "handler"}

\* The guard the request runs next.
NextGuard(rq) == Chain(rq.route)[Len(rq.ran) + 1]

\* The slots after something ran that is not a step of the request in slot r:
\* the requests in flight are no longer undisturbed.
Others(slots, r) ==
  [q \in Requests |->
     IF q # r /\ InFlight(slots[q]) THEN [slots[q] EXCEPT !.repeat = FALSE] ELSE slots[q]]

\* The slots after an account or session operation.
Disturbed(slots) == Others(slots, 0)

\* A request arrives in slot r: the session middleware loads the session's user
\* id into the request's own req.session.
Start(r) ==
  /\ issued < MaxRequests
  /\ ~InFlight(req[r])
  /\ issued' = issued + 1
  /\ \E route \in Routes, sid \in Sessions, name \in PathParams :
       LET communityName == IF route \in {"PUT /:communityName", "DELETE /:communityName"}
                            THEN name ELSE Undefined
       IN req' = [Others(req, r) EXCEPT ![r] = [IdleRequest EXCEPT
                    !.phase = "chain", !.route = route, !.sid = sid,
                    !.communityName = communityName,
                    !.userId = session[sid],
                    !.afterClear = sid \in cleared,
                    !.repeat = /\ \A q \in Requests : ~InFlight(req[q])
                               /\ session[sid] \in users
                               /\ firstMatch(follows, session[sid], communityName) # 0]]
  /\ UNCHANGED <<users, session, follows, following, cleared, listingVars>>

\* The slot a new request takes: the first that holds no request in flight.
TakesSlot(r) == \A q \in Requests : q < r => InFlight(req[q])

Arrive(r) == TakesSlot(r) /\ Start(r)

\* What a guard's run leaves in the request's record.
Ran(g, out) == [guard |-> g, nexts |-> out.nexts, responded |-> Len(out.res)]

\* The request after guard g ended with outcome out: the responses it wrote are
\* sent, and the next guard (or the handler) runs only if it invoked next().
Dispatch(rq, g, out) ==
  [rq EXCEPT
     !.ran = Append(@, Ran(g, out)),
     !.responses = @ \o out.res,
     !.userId = out.userId,
     !.phase = IF out.nexts = 0 THEN "end"
               ELSE IF Len(rq.ran) + 1 = Len(Chain(rq.route)) THEN "handler"
               ELSE "chain"]

\* The session store after the guard: a response saves a modified req.session.
SaveSession(store, rq, out) ==
  IF out.res # <<>> /\ out.userId # rq.userId
  THEN [store EXCEPT ![rq.sid] = out.userId]
  ELSE store

\* The guards that do no lookup: each runs to its end in the turn that starts it.
SyncGuards == {"isUserLoggedIn", "isValidCommunityName"}

SyncOutcome(g, rq) ==
  CASE g = "isUserLoggedIn" -> isUserLoggedIn(rq.userId)
    [] g = "isValidCommunityName" -> isValidCommunityName(rq.userId, rq.communityName)

\* One guard run on the pair <<request, session store>>.
GuardStep(st, g, out) == <<Dispatch(st[1], g, out), SaveSession(st[2], st[1], out)>>

\* next() calls the following guard at once: the guards without a lookup run in
\* the same turn, up to the first guard that awaits one, or to the handler.
RECURSIVE RunSync(_)
RunSync(st) ==
  IF st[1].phase = "chain" /\ NextGuard(st[1]) \in SyncGuards
  THEN LET g == NextGuard(st[1]) IN RunSync(GuardStep(st, g, SyncOutcome(g, st[1])))
  ELSE st

\* The turn in which the lookup of guard g resolves with outcome out.
RunGuard(r, g, out) ==
  /\ req[r].phase = "chain"
  /\ NextGuard(req[r]) = g
  /\ LET st == RunSync(GuardStep(<<req[r], session>>, g, out)) IN
       /\ req' = [Others(req, r) EXCEPT ![r] = st[1]]
       /\ session' = st[2]
       /\ cleared' = IF st[2] # session THEN cleared \cup {req[r].sid} ELSE cleared
  /\ UNCHANGED <<users, follows, issued, following, listingVars>>

SessionLiveness(r) ==
  RunGuard(r, "isCurrentSessionUserExists", isCurrentSessionUserExists(req[r].userId, users))

RepeatFollow(r) ==
  RunGuard(r, "isRepeatFollow", isRepeatFollow(req[r].userId, req[r].communityName, follows))

\* `(req.session.userId as string) ?? ''`
CurUserId(rq) == IF rq.userId = Undefined THEN EmptyId ELSE rq.userId

Handling(r, route) == req[r].phase = "handler" /\ req[r].route = route

\* The request in slot r ends having called the collection operation op and
\* written the responses res.
Handled(r, op, res) ==
  [Others(req, r) EXCEPT ![r].phase = "end",
                         ![r].ops = Append(@, op),
                         ![r].responses = @ \o res]

\* A 200 response; a body is a pair: the key and value of a JSON object with
\* one key, or "array" and the items of a JSON array.
Ok(body) == <<[status |-> 200, body |-> body]>>

GetSessionHandler(r) ==
  /\ Handling(r, "GET /session")
  /\ LET curUserId == CurUserId(req[r])
         found == findAllFollowsByUserId(follows, curUserId)
         response == [i \in 1..Len(found) |-> constructFollowResponse(found[i])]
     IN req' = Handled(r, <<"findAllFollowsByUserId", curUserId>>, Ok(<<"array", response>>))
  /\ UNCHANGED <<users, session, follows, issued, following, cleared, listingVars>>

\* The /listings handler with the response its comments keep switched off.
GetListingsHandlerResponds(r) ==
  /\ Handling(r, "GET /listings")
  /\ LET curUserId == CurUserId(req[r])
     IN req' = Handled(r, <<"findAllFollowsByUserId", curUserId>>, Ok(<<"array", <<>>>>))
  /\ UNCHANGED <<users, session, follows, issued, following, cleared, listingVars>>

GetListingsHandler(r) ==
  /\ Handling(r, "GET /listings")
  /\ LET curUserId == CurUserId(req[r])
     IN req' = Handled(r, <<"findAllFollowsByUserId", curUserId>>, <<>>)
  /\ UNCHANGED <<users, session, follows, issued, following, cleared, listingVars>>

PutHandler(r) ==
  /\ Handling(r, "PUT /:communityName")
  /\ LET curUserId == CurUserId(req[r])
         communityName == req[r].communityName
     IN /\ follows' = addOne(follows, curUserId, communityName)
        /\ following' = following \cup {<<curUserId, communityName>>}
        /\ req' = Handled(r, <<"addOne", curUserId, communityName>>,
                          Ok(<<"message", "Your follow was added successfully.">>))
  /\ UNCHANGED <<users, session, issued, cleared, listingVars>>

DeleteHandler(r) ==
  /\ Handling(r, "DELETE /:communityName")
  /\ LET currUser == CurUserId(req[r])
         communityName == req[r].communityName
     IN /\ follows' = deleteOne(follows, currUser, communityName)
        /\ following' = following \ {<<currUser, communityName>>}
        /\ req' = Handled(r, <<"deleteOne", currUser, communityName>>,
                          Ok(<<"message", "Your follow was deleted successfully.">>))
  /\ UNCHANGED <<users, session, issued, cleared, listingVars>>

\* ------------------------------------------------- accounts and sessions

\* Sign-in: a signed-out session takes the id of an existing account.
Login(s, u) ==
  /\ session[s] = Undefined
  /\ u \in users
  /\ session' = [session EXCEPT ![s] = u]
  /\ cleared' = cleared \ {s}
  /\ req' = Disturbed(req)
  /\ UNCHANGED <<users, follows, issued, following, listingVars>>

\* Sign-out: a signed-in session drops its user id.
Logout(s) ==
  /\ session[s] # Undefined
  /\ session' = [session EXCEPT ![s] = Undefined]
  /\ req' = Disturbed(req)
  /\ UNCHANGED <<users, follows, issued, following, cleared, listingVars>>

\* An account is deleted from the directory; sessions of other browsers that
\* carry its id are left as they are.
DeleteAccount(u) ==
  /\ u \in users
  /\ users' = users \ {u}
  /\ req' = Disturbed(req)
  /\ UNCHANGED <<session, follows, issued, following, cleared, listingVars>>

Next ==
  \/ \E r \in Requests : Arrive(r)
  \/ \E r \in Requests : SessionLiveness(r)
  \/ \E r \in Requests : RepeatFollow(r)
  \/ \E r \in Requests : GetSessionHandler(r)
  \/ \E r \in Requests : GetListingsHandler(r)
  \/ \E r \in Requests : PutHandler(r)
  \/ \E r \in Requests : DeleteHandler(r)
  \/ \E s \in Sessions, u \in UserIds : Login(s, u)
  \/ \E s \in Sessions : Logout(s)
  \/ \E u \in UserIds : DeleteAccount(u)

\* Requests of the follow routes, in flight together, with sign-in, sign-out
\* and account deletion.
Spec == Init /\ [][Next]_vars

\* ------------------------------------------------ single guard executions

BodyKeys == {"username", "password", "homeCommunity", "contactInfo", "allergies",
             "otherDietaryRestrictions", "author"}

EmptyBody == [k \in BodyKeys |-> Absent]

\* The body (or query) that holds value v under key.
With(body, key, v) == [body EXCEPT ![key] = v]

UsernameInputs ==
  {Absent, Undef, Str(""), Str("alice"), Str("bob_2"), Str("carol"), Str("a b"), Str("a-b")}
PasswordInputs == {Absent, Str(""), Str("pw1"), Str("pw2"), Str("a b")}
HomeCommunityInputs == {Absent, Undef, Str("Maseeh"), Str("Narnia")}
ContactInfoInputs == {Absent, Undef, Str(""), Str("617-555")}
AllergiesInputs == {Absent, Undef, Str(""), Str("nuts")}
AuthorInputs == {Absent, Str(""), Str("alice"), Str("carol")}

\* Guard g runs once, on its own, on a request of session s, and ends with
\* outcome out; the first slot records the execution.
Execute(g, s, out) ==
  /\ ~InFlight(req[1])
  /\ LET rq == [IdleRequest EXCEPT !.route = "single guard", !.sid = s, !.userId = session[s]]
     IN /\ req' = [req EXCEPT ![1] = [rq EXCEPT !.phase = "end",
                                                !.ran = <<Ran(g, out)>>,
                                                !.responses = out.res,
                                                !.userId = out.userId]]
        /\ session' = SaveSession(session, rq, out)
        /\ cleared' = IF SaveSession(session, rq, out) # session THEN cleared \cup {s}
                       ELSE cleared
  /\ UNCHANGED <<users, follows, issued, following, listingVars>>

ExecIsCurrentSessionUserExists ==
  \E s \in Sessions :
    Execute("isCurrentSessionUserExists", s, isCurrentSessionUserExists(session[s], users))

ExecIsValidUsername ==
  \E s \in Sessions, v \in UsernameInputs :
    Execute("isValidUsername", s, isValidUsername(session[s], With(EmptyBody, "username", v)))

ExecIsValidPassword ==
  \E s \in Sessions, v \in PasswordInputs :
    Execute("isValidPassword", s, isValidPassword(session[s], With(EmptyBody, "password", v)))

ExecIsValidHomeCommunity ==
  \E s \in Sessions, v \in HomeCommunityInputs :
    Execute("isValidHomeCommunity", s,
            isValidHomeCommunity(session[s], With(EmptyBody, "homeCommunity", v)))

ExecIsValidContactInfo ==
  \E s \in Sessions, v \in ContactInfoInputs :
    Execute("isValidContactInfo", s,
            isValidContactInfo(session[s], With(EmptyBody, "contactInfo", v)))

ExecIsValidAllergies ==
  \E s \in Sessions, v \in AllergiesInputs :
    Execute("isValidAllergies", s, isValidAllergies(session[s], With(EmptyBody, "allergies", v)))

ExecIsValidDietaryRestrictions ==
  \E s \in Sessions, v \in AllergiesInputs :
    Execute("isValidDietaryRestrictions", s,
            isValidDietaryRestrictions(session[s], With(EmptyBody, "otherDietaryRestrictions", v)))

ExecIsAccountExists ==
  \E s \in Sessions, v \in AuthorInputs, w \in PasswordInputs :
    Execute("isAccountExists", s,
            isAccountExists(session[s], With(With(EmptyBody, "username", v), "password", w), users))

ExecIsUsernameNotAlreadyInUse ==
  \E s \in Sessions, v \in UsernameInputs :
    Execute("isUsernameNotAlreadyInUse", s,
            isUsernameNotAlreadyInUse(session[s], With(EmptyBody, "username", v), users))

ExecIsUserLoggedIn ==
  \E s \in Sessions : Execute("isUserLoggedIn", s, isUserLoggedIn(session[s]))

ExecIsUserLoggedOut ==
  \E s \in Sessions : Execute("isUserLoggedOut", s, isUserLoggedOut(session[s]))

ExecIsAuthorExists ==
  \E s \in Sessions, v \in AuthorInputs :
    Execute("isAuthorExists", s, isAuthorExists(session[s], With(EmptyBody, "author", v), users))

\* Requests handled one at a time, in the first slot.
OneRequest ==
  \/ Start(1)
  \/ SessionLiveness(1)
  \/ RepeatFollow(1)
  \/ GetSessionHandler(1)
  \/ GetListingsHandler(1)
  \/ PutHandler(1)
  \/ DeleteHandler(1)

NextGuards ==
  \/ ExecIsCurrentSessionUserExists
  \/ ExecIsValidUsername
  \/ ExecIsValidPassword
  \/ ExecIsValidHomeCommunity
  \/ ExecIsValidContactInfo
  \/ ExecIsValidAllergies
  \/ ExecIsValidDietaryRestrictions
  \/ ExecIsAccountExists
  \/ ExecIsUsernameNotAlreadyInUse
  \/ ExecIsUserLoggedIn
  \/ ExecIsUserLoggedOut
  \/ ExecIsAuthorExists
  \/ OneRequest
  \/ \E s \in Sessions, u \in UserIds : Login(s, u)
  \/ \E s \in Sessions : Logout(s)
  \/ \E u \in UserIds : DeleteAccount(u)

\* Single guard executions, and requests of the follow routes one at a time,
\* with sign-in, sign-out and account deletion.
SpecGuards == Init /\ [][NextGuards]_vars

\* ------------------------------------------------ listing collection calls

\* What the callers pass.
ListingIds == 1..MaxListings
OwnerIds == UserIds \cup {"u9"}
Names == {"bread"}
Emails == {"ann@mit.edu"}
CreateQuantities == {3}
CreatePrices == {"5.00"}
\* The owner and the expiration of a new listing.
Creators == {<<"u1", "2022-12-09">>, <<"u1", "2022-12-01">>, <<"u2", "2022-12-01">>}
QuantityInputs == {Undef, Num(0), Num(1)}
PriceInputs == {Undef, Str(""), Str("5.00")}

followVars == <<users, session, follows, req, issued, following, cleared>>

\* A call of ListingCollection ends with res, the store it leaves and its result.
Called(op, args, res) ==
  /\ call' = [op |-> op, args |-> args, before |-> listings,
              outcome |-> res.result.outcome, value |-> res.result.value]
  /\ listings' = res.store
  /\ UNCHANGED followVars

\* The n-th listing created gets the id n, at the time n.
AddOne ==
  /\ created < MaxListings
  /\ created' = created + 1
  /\ \E creator \in Creators, name \in Names, quantity \in CreateQuantities,
        price \in CreatePrices, email \in Emails :
       LET userId == creator[1]
           expiration == creator[2]
       IN Called("addOne", <<userId, name, quantity, expiration, price, email>>,
                 Listing_addOne(listings, users, created + 1, created + 1, userId, name,
                                quantity, expiration, price, email))

FindOne ==
  /\ \E listingId \in ListingIds :
       Called("findOne", <<listingId>>, Listing_findOne(listings, users, listingId))
  /\ UNCHANGED created

FindAll ==
  /\ \E fields \in FindAllProjections :
       Called("findAll", <<>>, Listing_findAll(listings, users, fields))
  /\ UNCHANGED created

FindAllByUser ==
  /\ \E userId \in OwnerIds :
       \E sorted \in SortByExpiration(OwnedBy(listings, userId)) :
         Called("findAllByUser", <<userId>>,
                Listing_findAllByUser(listings, users, userId, sorted))
  /\ UNCHANGED created

UpdateOne ==
  /\ \E listingId \in ListingIds, quantity \in QuantityInputs, price \in PriceInputs :
       Called("updateOne", <<listingId, [quantity |-> quantity, price |-> price]>>,
              Listing_updateOne(listings, users, listingId,
                                [quantity |-> quantity, price |-> price]))
  /\ UNCHANGED created

DeleteOne ==
  /\ \E listingId \in ListingIds :
       Called("deleteOne", <<listingId>>, Listing_deleteOne(listings, listingId))
  /\ UNCHANGED created

DeleteMany ==
  /\ \E userId \in UserIds :
       Called("deleteMany", <<userId>>, Listing_deleteMany(listings, userId))
  /\ UNCHANGED created

NextListings ==
  \/ AddOne
  \/ FindOne
  \/ FindAll
  \/ FindAllByUser
  \/ UpdateOne
  \/ DeleteOne
  \/ DeleteMany

\* Calls of ListingCollection, one after the other.
SpecListings == Init /\ [][NextListings]_vars

\* ------------------------------------------------------------- properties

Ended(rq) == rq.phase = "end"

\* A terminal error response.
Error(status, msg) == [status |-> status, body |-> <<"error", msg>>]

IsErrorResponse(res) ==
  /\ res.status \in {400, 401, 403, 404, 409, 500}
  /\ res.body[1] = "error"
  /\ res.body[2] # ""

NotLoggedIn == Error(403, "You must be logged in to complete this action.")

\* The guards of a request's record, in the order they ran.
GuardsRan(rq) == [i \in 1..Len(rq.ran) |-> rq.ran[i].guard]

\* C1: a single execution of a guard ends in exactly one of two ways: it
\* invoked next() once and wrote no response, or it wrote one terminal response
\* (a status code and an {error: message} body) and did not invoke next().
C1_GuardEndsOneWay ==
  \A r \in Requests :
    /\ \A i \in 1..Len(req[r].ran) :
         \/ req[r].ran[i].nexts = 1 /\ req[r].ran[i].responded = 0
         \/ req[r].ran[i].nexts = 0 /\ req[r].ran[i].responded = 1
    /\ req[r].route = "single guard" =>
         /\ Len(req[r].ran) = 1
         /\ Len(req[r].responses) = req[r].ran[1].responded
         /\ \A i \in 1..Len(req[r].responses) : IsErrorResponse(req[r].responses[i])

\* C1's case: isAuthorExists ran on its own, its lookup resolved to no account,
\* and it answered 404.
C1_Witness ==
  /\ req[1].route = "single guard"
  /\ GuardsRan(req[1]) = <<"isAuthorExists">>
  /\ Len(req[1].responses) = 1
  /\ req[1].responses[1].status = 404

\* C2: the Follow store holds at most one record per (user, community) pair.
C2_FollowPairUnique ==
  \A i, j \in 1..Len(follows) : follows[i] = follows[j] => i = j

\* C3: a PUT by a logged-in user for a pair that is in the store when the
\* request arrives, with nothing else running, is answered 409 and calls no
\* collection operation; none of its steps changes the Follow store.
C3_RepeatPutRejected ==
  /\ [](\A r \in Requests :
          (req[r].route = "PUT /:communityName" /\ req[r].repeat /\ Ended(req[r])) =>
            /\ Len(req[r].responses) = 1
            /\ req[r].responses[1].status = 409
            /\ IsErrorResponse(req[r].responses[1])
            /\ req[r].ops = <<>>)
  /\ [][\A r \in Requests :
          (req[r].route = "PUT /:communityName" /\ req[r].repeat /\ req'[r].repeat
             /\ InFlight(req[r]) /\ req'[r] # req[r]) => follows' = follows]_vars

\* C3's case: such a request has ended with 409.
C3_Witness ==
  \E r \in Requests :
    /\ req[r].route = "PUT /:communityName"
    /\ req[r].repeat
    /\ Ended(req[r])
    /\ req[r].responses # <<>>
    /\ req[r].responses[1].status = 409

\* The request in slot r runs session liveness in this step, with a user id
\* that does not resolve.
StaleLivenessTurn(r) ==
  /\ req[r].phase = "chain"
  /\ req[r].ran = <<>>
  /\ Truthy(req[r].userId)
  /\ req[r].userId \notin users
  /\ req'[r].ran # <<>>

\* C4: session liveness, on a user id that does not resolve, clears the session
\* user id and answers 500 'User session was not recognized.' without invoking
\* next(); a request that arrives later on the session so cleared goes no
\* further than isUserLoggedIn, which answers it 403.
C4_StaleSessionCleared ==
  /\ [][\A r \in Requests :
          StaleLivenessTurn(r) =>
            /\ req'[r].responses = <<Error(500, "User session was not recognized.")>>
            /\ req'[r].ran = <<[guard |-> "isCurrentSessionUserExists", nexts |-> 0,
                                responded |-> 1]>>
            /\ Ended(req'[r])
            /\ req'[r].ops = <<>>
            /\ req'[r].userId = Undefined
            /\ session'[req[r].sid] = Undefined]_vars
  /\ [](\A r \in Requests :
          (req[r].afterClear /\ req[r].ran # <<>>) =>
            /\ Ended(req[r])
            /\ GuardsRan(req[r]) = <<"isCurrentSessionUserExists", "isUserLoggedIn">>
            /\ req[r].responses = <<NotLoggedIn>>
            /\ req[r].ops = <<>>)

\* C4's case: a request that arrived on a cleared session was answered 403.
C4_Witness ==
  \E r \in Requests :
    /\ req[r].afterClear
    /\ Ended(req[r])
    /\ req[r].responses = <<NotLoggedIn>>

\* C5: on each follow route, a request whose session carries no user id is
\* answered 403 with the logged-in error by isUserLoggedIn; no later guard and
\* no collection operation runs, and the turn changes neither the session
\* store nor the Follow store.
C5_UnauthenticatedRejected ==
  /\ [](\A r \in Requests :
          (req[r].route \in Routes /\ Len(req[r].ran) >= 2 /\ ~Truthy(req[r].userId)) =>
            /\ Ended(req[r])
            /\ GuardsRan(req[r]) = <<"isCurrentSessionUserExists", "isUserLoggedIn">>
            /\ req[r].responses = <<NotLoggedIn>>
            /\ req[r].ops = <<>>)
  /\ [][\A r \in Requests :
          (req[r].phase = "chain" /\ req[r].ran = <<>> /\ ~Truthy(req[r].userId)
             /\ req'[r].ran # <<>>) =>
            /\ Len(req'[r].ran) = 2
            /\ session' = session
            /\ follows' = follows]_vars

\* C5's case: requests of two of the routes, without a user id, answered 403.
C5_Witness ==
  \E r, q \in Requests :
    /\ req[r].route = "PUT /:communityName"
    /\ req[q].route = "GET /listings"
    /\ \A x \in {r, q} :
         ~Truthy(req[x].userId) /\ Ended(req[x]) /\ req[x].responses = <<NotLoggedIn>>

\* The guards in the order the route lists them, after session liveness.
ListedGuards(route) ==
  CASE route \in {"GET /session", "GET /listings"} -> <<"isUserLoggedIn">>
    [] route = "PUT /:communityName" ->
         <<"isUserLoggedIn", "isRepeatFollow", "isValidCommunityName">>
    [] route = "DELETE /:communityName" -> <<"isUserLoggedIn", "isValidCommunityName">>

Continued(entry) == entry.nexts = 1 /\ entry.responded = 0

\* C6: within one request the guards run in the order listed for the route,
\* each after the one before it invoked next(); the handler's collection
\* operation runs only after every guard of the route invoked next(); and a
\* guard that writes a terminal response is the last thing the request runs.
C6_GuardsInSequence ==
  \A r \in Requests :
    req[r].route \in Routes =>
      LET listed == <<"isCurrentSessionUserExists">> \o ListedGuards(req[r].route)
          ran == req[r].ran
          passed == Len(ran) = Len(listed) /\ \A i \in 1..Len(ran) : Continued(ran[i])
      IN /\ Len(ran) <= Len(listed)
         /\ \A i \in 1..Len(ran) : ran[i].guard = listed[i]
         /\ \A i \in 1..(Len(ran) - 1) : Continued(ran[i])
         /\ Len(req[r].ops) <= 1
         /\ (req[r].ops # <<>> \/ req[r].phase = "handler") => passed
         /\ (\E i \in 1..Len(ran) : ran[i].responded # 0) =>
              /\ Ended(req[r])
              /\ req[r].ops = <<>>
              /\ Len(req[r].responses) = 1

\* C6's case: a PUT whose three guards and session liveness all continued has
\* called addOne, and another PUT was stopped by its third guard.
C6_Witness ==
  \E r, q \in Requests :
    /\ req[r].route = "PUT /:communityName"
    /\ Len(req[r].ran) = 4
    /\ req[r].ops # <<>>
    /\ req[q].route = "PUT /:communityName"
    /\ Len(req[q].ran) = 4
    /\ req[q].ran[4].responded = 1

\* Session liveness runs in this step on a user id that resolves to no account.
LivenessOnStale ==
  \/ \E r \in Requests : StaleLivenessTurn(r) /\ SessionLiveness(r)
  \/ \E s \in Sessions :
       /\ Truthy(session[s])
       /\ session[s] \notin users
       /\ Execute("isCurrentSessionUserExists", s, isCurrentSessionUserExists(session[s], users))

\* C7: the session's user id changes only by login, by logout and by session
\* liveness on a stale reference; every other guard, whether it continues or
\* responds, every follow route handler, and session liveness on an absent or
\* resolving id leave it as it was, in the store and in the request's own
\* req.session.
C7_SessionFrame ==
  [][/\ session' # session =>
          \/ \E s \in Sessions, u \in UserIds : Login(s, u)
          \/ \E s \in Sessions : Logout(s)
          \/ LivenessOnStale
     /\ \A r \in Requests :
          (InFlight(req[r]) /\ req'[r].userId # req[r].userId) => StaleLivenessTurn(r)
     /\ (req'[1] # req[1] /\ req'[1].route = "single guard"
           /\ req'[1].userId # session[req'[1].sid]) => LivenessOnStale]_vars

\* C7's case: isUserLoggedOut, run on its own for a signed-in user, responded,
\* and the session still carries the user's id.
C7_Witness ==
  /\ req[1].route = "single guard"
  /\ GuardsRan(req[1]) = <<"isUserLoggedOut">>
  /\ Len(req[1].responses) = 1
  /\ req[1].userId \in users
  /\ session[req[1].sid] = req[1].userId

\* The guards that only look at the request, and those that look something up.
SyntacticGuards == {"isValidCommunityName"}
LookupGuards == {"isRepeatFollow"}
SessionReaders == {"isRepeatFollow"}

\* C8: among the guards of a route, each purely syntactic guard runs before
\* every guard that needs a lookup, and isUserLoggedIn runs before every guard
\* that reads the session user id.
C8_SyntacticBeforeLookup ==
  \A r \in Requests :
    req[r].route \in Routes =>
      LET ran == req[r].ran
          route == RouteGuards(req[r].route)
          Before(g, i) == \E j \in 1..(i - 1) : ran[j].guard = g
      IN \A i \in 1..Len(ran) :
           /\ ran[i].guard \in LookupGuards =>
                \A k \in 1..Len(route) : route[k] \in SyntacticGuards => Before(route[k], i)
           /\ ran[i].guard \in SessionReaders => Before("isUserLoggedIn", i)

InvalidName(rq) == rq.route = "PUT /:communityName" /\ rq.communityName \notin validCommunities

StoreNamesValid == \A i \in 1..Len(follows) : follows[i].communityName \in validCommunities

\* C9 as stated: every Follow in the store names one of the 13 communities, and
\* every PUT whose path parameter is absent or outside the set is answered 400
\* and creates no Follow.
C9_InvalidNameAlways400 ==
  /\ StoreNamesValid
  /\ \A r \in Requests :
       (InvalidName(req[r]) /\ Ended(req[r])) =>
         /\ Len(req[r].responses) = 1
         /\ req[r].responses[1].status = 400
         /\ req[r].ops = <<>>

\* C9, amended: every Follow in the store names one of the 13 communities; a
\* PUT whose path parameter is absent or outside the set never calls addOne,
\* and is answered 400 when session liveness and isUserLoggedIn let it pass
\* (it is answered 500 on a stale session and 403 without a user id).
C9_InvalidNameNeverStored ==
  /\ StoreNamesValid
  /\ \A r \in Requests :
       InvalidName(req[r]) =>
         /\ req[r].ops = <<>>
         /\ req[r].phase # "handler"
         /\ (Ended(req[r]) /\ Len(req[r].ran) >= 3) =>
              /\ Len(req[r].responses) = 1
              /\ req[r].responses[1].status = 400
              /\ IsErrorResponse(req[r].responses[1])

\* C9's case: PUTs with an absent and with an unknown community name were
\* answered 400 while the store holds a Follow.
C9_Witness ==
  \E r, q \in Requests :
    /\ follows # <<>>
    /\ req[r].route = "PUT /:communityName" /\ req[r].communityName = Undefined
    /\ req[q].route = "PUT /:communityName" /\ req[q].communityName = "Narnia"
    /\ \A x \in {r, q} :
         Ended(req[x]) /\ req[x].responses # <<>> /\ req[x].responses[1].status = 400

\* No PUT or DELETE is under way beside the request in slot r.
WritesCompleted(r) ==
  \A q \in Requests :
    (q # r /\ InFlight(req[q])) => req[q].route \in {"GET /session", "GET /listings"}

\* C10: once the PUT and DELETE requests have completed, GET /follows/session
\* by a logged-in user A is answered 200 with exactly A's Follows: one entry
\* for each community A followed and has not unfollowed since, none of
\* another user.
C10_SessionFollowsExact ==
  [][\A r \in Requests :
       (Handling(r, "GET /session") /\ WritesCompleted(r) /\ Ended(req'[r])) =>
         LET A == req[r].userId
             res == req'[r].responses
             entries == res[1].body[2]
         IN /\ Len(res) = 1
            /\ res[1].status = 200
            /\ \A i \in 1..Len(entries) : entries[i].user = A
            /\ \A c \in validCommunities :
                 Cardinality({i \in 1..Len(entries) : entries[i].communityName = c})
                   = IF <<A, c>> \in following THEN 1 ELSE 0]_vars

\* C11: a DELETE by a logged-in user with a valid community name is answered
\* 404 when the store holds no Follow of the user and that community.
C11_DeleteMissingFollow404 ==
  [][\A r \in Requests :
       (/\ Handling(r, "DELETE /:communityName")
        /\ Ended(req'[r])
        /\ Truthy(req[r].userId)
        /\ req[r].communityName \in validCommunities
        /\ firstMatch(follows, CurUserId(req[r]), req[r].communityName) = 0) =>
         /\ Len(req'[r].responses) = 1
         /\ req'[r].responses[1].status = 404]_vars

\* The request in slot r, past session liveness, runs a guard or its handler in
\* this step.
ActsAfterLiveness(r) ==
  /\ InFlight(req[r])
  /\ req[r].ran # <<>>
  /\ req'[r].ran # req[r].ran \/ req'[r].ops # req[r].ops

\* C17: however a request interleaves with an account deletion, no guard after
\* session liveness and no follow route handler acts on a session user id that
\* no longer resolves; in particular addOne is never called with the id of a
\* deleted user.
C17_NoActOnDeletedUser ==
  [][\A r \in Requests :
       /\ ActsAfterLiveness(r) => req[r].userId \in users
       /\ (Handling(r, "PUT /:communityName") /\ req'[r].ops # req[r].ops) =>
            req'[r].ops[1][2] \in users]_vars

\* The request in slot r is on GET /listings and reached isUserLoggedIn with a
\* user id in its session.
ListingsWithUser(rq) ==
  /\ rq.route = "GET /listings"
  /\ Len(rq.ran) >= 2
  /\ Truthy(rq.userId)

Continues(out) == out.nexts = 1 /\ out.res = <<>>

Answers403(out) == out.nexts = 0 /\ Len(out.res) = 1 /\ out.res[1].status = 403

\* C20: for every session state exactly one of isUserLoggedIn and
\* isUserLoggedOut invokes next() and the other answers 403; isUserLoggedIn
\* continues exactly when the session user id is truthy, isUserLoggedOut exactly
\* when it is not.
C20_LoggedInXorLoggedOut ==
  \A uid \in {session[s] : s \in Sessions} \cup {req[r].userId : r \in Requests}
             \cup {EmptyId} :
    LET in == isUserLoggedIn(uid)
        out == isUserLoggedOut(uid)
    IN /\ Continues(in) <=> Truthy(uid)
       /\ Continues(out) <=> ~Truthy(uid)
       /\ Continues(in) => Answers403(out)
       /\ Continues(out) => Answers403(in)
       /\ Continues(in) \/ Continues(out)

\* C20's case: on a signed-in session isUserLoggedIn has run and continued,
\* and isUserLoggedOut answers 403 on the same session.
C20_Witness ==
  /\ req[1].route = "single guard"
  /\ GuardsRan(req[1]) = <<"isUserLoggedIn">>
  /\ Continued(req[1].ran[1])
  /\ session[req[1].sid] \in users
  /\ Answers403(isUserLoggedOut(session[req[1].sid]))

\* The store holds a listing with the id, and that listing.
Existing(store, id) == Position(store, id) # 0
Doc(store, id) == store[Position(store, id)]

\* The listings with another id are the same in both stores, in the same order.
OthersUnchanged(before, after, id) ==
  SelectSeq(before, LAMBDA l : l.id # id) = SelectSeq(after, LAMBDA l : l.id # id)

\* The last call was updateOne on a listing that was in the store.
UpdatedExisting == call.op = "updateOne" /\ Existing(call.before, call.args[1])

\* C12: on an existing listing, updateOne(id, {price: p}) with p defined
\* changes that listing's price and nothing else of it, updateOne(id, {})
\* changes nothing of it, and both leave every other listing as it was.
C12_PartialUpdateFrame ==
  (UpdatedExisting /\ call.args[2].quantity = Undef) =>
    LET id == call.args[1]
        price == call.args[2].price
        old == Doc(call.before, id)
    IN /\ Existing(listings, id)
       /\ Len(listings) = Len(call.before)
       /\ OthersUnchanged(call.before, listings, id)
       /\ price # Undef => Doc(listings, id) = [old EXCEPT !.price = price.str]
       /\ price = Undef => Doc(listings, id) = old

\* C12's case: with two listings in the store, updateOne(id, {price: ""})
\* has changed the price of one of them.
C12_Witness ==
  /\ UpdatedExisting
  /\ call.args[2] = [quantity |-> Undef, price |-> Str("")]
  /\ Len(listings) = 2
  /\ Doc(call.before, call.args[1]).price = "5.00"
  /\ Doc(listings, call.args[1]).price = ""

\* The last call was given an identifier that does not resolve.
Unresolved ==
  \/ call.op \in {"findOne", "updateOne"} /\ ~Existing(call.before, call.args[1])
  \/ call.op = "findAllByUser" /\ call.args[1] \notin users

\* C13: findOne and updateOne with a listing id that is not in the store, and
\* findAllByUser with a user id that is not in the directory, return null to
\* the caller and never end in an exception or a rejected promise.
C13_UnresolvedReturnsNull ==
  Unresolved => (call.outcome = "returned" /\ call.value = Null)

\* C14: deleteOne(id) returns true exactly when a listing with the id was in
\* the store; afterwards no listing has the id and every other listing is as
\* it was.
C14_DeleteOneReportsExistence ==
  call.op = "deleteOne" =>
    /\ call.outcome = "returned"
    /\ call.value = TRUE <=> Existing(call.before, call.args[1])
    /\ ~Existing(listings, call.args[1])
    /\ OthersUnchanged(call.before, listings, call.args[1])

\* The fields of a listing that are set at creation and not changed after.
Immutable(doc) ==
  [userId |-> doc.userId, dateCreated |-> doc.dateCreated, name |-> doc.name,
   expiration |-> doc.expiration, email |-> doc.email]

\* C15: a listing keeps the owner, creation time, name, expiration and email
\* that addOne gave it for as long as it is in the store, through every call of
\* updateOne, findOne, findAll and findAllByUser; only quantity and price change.
C15_ImmutableFields ==
  /\ \A i \in 1..Len(call.before) :
       LET old == call.before[i] IN
       Existing(listings, old.id) => Immutable(Doc(listings, old.id)) = Immutable(old)
  /\ call.op \in {"updateOne", "findOne", "findAll", "findAllByUser"} =>
       /\ Len(listings) = Len(call.before)
       /\ \A i \in 1..Len(listings) : listings[i].id = call.before[i].id
  /\ call.op = "addOne" =>
       LET new == listings[Len(listings)] IN
       /\ listings = Append(call.before, new)
       /\ ~Existing(call.before, new.id)
       /\ Immutable(new) = [userId |-> call.args[1], dateCreated |-> created,
                            name |-> call.args[2], expiration |-> call.args[4],
                            email |-> call.args[6]]
  /\ \A i, j \in 1..Len(listings) : listings[i].id = listings[j].id => i = j

\* C15's case: updateOne has changed both the quantity and the price of a
\* listing that was created before another one.
C15_Witness ==
  /\ UpdatedExisting
  /\ Len(listings) = 2
  /\ Doc(listings, call.args[1]).quantity # Doc(call.before, call.args[1]).quantity
  /\ Doc(listings, call.args[1]).price # Doc(call.before, call.args[1]).price

\* The documents returned are those of docs, each once, with all fields and
\* the owner populated.
ReturnsExactly(value, docs) ==
  /\ Len(value) = Len(docs)
  /\ \A i \in 1..Len(docs) : \E j \in 1..Len(value) : value[j] = populate(docs[i], users)

\* C16: findAll returns every listing of the store, with all fields, in
\* ascending order of expiration; findAllByUser(userId), for an existing user,
\* returns exactly that user's listings in ascending order of expiration.
C16_FindAllSorted ==
  /\ call.op = "findAll" =>
       /\ call.outcome = "returned"
       /\ ReturnsExactly(call.value, call.before)
       /\ Ascending(call.value)
  /\ (call.op = "findAllByUser" /\ call.args[1] \in users) =>
       /\ call.outcome = "returned"
       /\ ReturnsExactly(call.value, OwnedBy(call.before, call.args[1]))
       /\ Ascending(call.value)

\* C18: updateOne on an existing listing sets the quantity to the one given
\* exactly when that is truthy (0 leaves the stored quantity) and sets the price
\* to the one given exactly when that is not undefined (the empty string becomes
\* the price).
C18_UpdateOneApplies ==
  UpdatedExisting =>
    LET quantity == call.args[2].quantity
        price == call.args[2].price
        old == Doc(call.before, call.args[1])
        new == Doc(listings, call.args[1])
    IN /\ quantity \in {Undef, Num(0)} => new.quantity = old.quantity
       /\ quantity \notin {Undef, Num(0)} => new.quantity = quantity.num
       /\ price = Undef => new.price = old.price
       /\ price # Undef => new.price = price.str

\* C18's case: updateOne(id, {quantity: 0, price: ""}) left the quantity 3
\* and made the price the empty string.
C18_Witness ==
  /\ UpdatedExisting
  /\ call.args[2] = [quantity |-> Num(0), price |-> Str("")]
  /\ Doc(call.before, call.args[1]).price = "5.00"
  /\ Doc(listings, call.args[1]).quantity = 3
  /\ Doc(listings, call.args[1]).price = ""

====
